---------------------------- MODULE Spec2Model ----------------------------
(***************************************************************************)
(* translate.py: a one-shot bulk literal-substitution pass over the .kt    *)
(* files below a root directory.  Texts are sequences of code points,      *)
(* files hold UTF-8 bytes, the substitution table is the ordered sequence  *)
(* of (pattern, replacement) pairs of the dict literal, and a run is the   *)
(* for-loop over the walk followed by the printed summary.                 *)
(***************************************************************************)
EXTENDS Integers, Sequences, FiniteSets, TLC

VARIABLES
    linesep,     \* os.linesep of the platform: "\n" (POSIX) or "\r\n" (Windows)
    rootExists,  \* whether the root directory `base` is an existing directory
    files,       \* the files base.rglob("*.kt") yields, in yield order
    start,       \* start[k]: the bytes stored in file k when the current run began
    disk,        \* disk[k]: the bytes stored in file k now
    run,         \* number of the current execution of the script (1, 2, ...)
    pc,          \* position of the script
    i,           \* index of the file bound to the loop variable f (0: none yet)
    content,     \* local `content`
    original,    \* local `original`
    updated,     \* list `updated`
    stdout,      \* lines printed so far in this run
    trace,       \* history: the steps taken in this run, as <<file index, step>>
    seen,        \* history: per file, the (original, content) pair the run compared
                 \* and whether write_text opened the file
    table,       \* substitution loop on its own: the dict under test
    ri           \* substitution loop on its own: index of the next dict item

vars == <<linesep, rootExists, files, start, disk, run, pc, i, content,
          original, updated, stdout, trace, seen, table, ri>>


(***************************************************************************)
(* A text is a Python str: a sequence of Unicode code points.  S writes an *)
(* ASCII literal as its code points (32..95 and 97..126, "\n" and "\r").   *)
(***************************************************************************)
AsciiLow == " !\"#$%&'()*+,-./0123456789:;<=>?@ABCDEFGHIJKLMNOPQRSTUVWXYZ[\\]^_"

AsciiHigh == "abcdefghijklmnopqrstuvwxyz{|}~"

Ord(c) ==
    CASE c = "\n" -> 10
      [] c = "\r" -> 13
      [] \E k \in 1..Len(AsciiLow) : SubSeq(AsciiLow, k, k) = c ->
            31 + (CHOOSE k \in 1..Len(AsciiLow) : SubSeq(AsciiLow, k, k) = c)
      [] OTHER ->
            96 + (CHOOSE k \in 1..Len(AsciiHigh) : SubSeq(AsciiHigh, k, k) = c)

S(str) == [k \in 1..Len(str) |-> Ord(SubSeq(str, k, k))]

(***************************************************************************)
(* The dict literal `translations`, as its items in insertion order.       *)
(***************************************************************************)
translations ==
  <<
     \* 1 (line 6): "未同期": "Never synced"
     <<<<26410, 21516, 26399>>, S("Never synced")>>,
     \* 2 (line 7): "準備完了": "Ready"
     <<<<28310, 20633, 23436, 20102>>, S("Ready")>>,
     \* 3 (line 8): "実行中": "Running"
     <<<<23455, 34892, 20013>>, S("Running")>>,
     \* 4 (line 9): "利用可能": "Available"
     <<<<21033, 29992, 21487, 33021>>, S("Available")>>,
     \* 5 (line 10): "エラー": "Error"
     <<<<12456, 12521, 12540>>, S("Error")>>,
     \* 6 (line 11): "成功": "Success"
     <<<<25104, 21151>>, S("Success")>>,
     \* 7 (line 12): "失敗": "Failed"
     <<<<22833, 25943>>, S("Failed")>>,
     \* 8 (line 13): "警告": "Warning"
     <<<<35686, 21578>>, S("Warning")>>,
     \* 9 (line 14): "完了": "Complete"
     <<<<23436, 20102>>, S("Complete")>>,
     \* 10 (line 15): "読み込み中": "Loading"
     <<<<35501, 12415, 36796, 12415, 20013>>, S("Loading")>>,
     \* 11 (line 18): "今日": "Today"
     <<<<20170, 26085>>, S("Today")>>,
     \* 12 (line 19): "昨日": "Yesterday"
     <<<<26152, 26085>>, S("Yesterday")>>,
     \* 13 (line 20): "日前": " days ago"
     <<<<26085, 21069>>, S(" days ago")>>,
     \* 14 (line 21): "時間前": " hours ago"
     <<<<26178, 38291, 21069>>, S(" hours ago")>>,
     \* 15 (line 22): "分前": " minutes ago"
     <<<<20998, 21069>>, S(" minutes ago")>>,
     \* 16 (line 23): "週間前": " weeks ago"
     <<<<36913, 38291, 21069>>, S(" weeks ago")>>,
     \* 17 (line 24): "ヶ月前": " months ago"
     <<<<12534, 26376, 21069>>, S(" months ago")>>,
     \* 18 (line 25): "1minutes以内": "Less than 1 minute ago"
     <<S("1minutes") \o <<20197, 20869>>, S("Less than 1 minute ago")>>,
     \* 19 (line 28): "コンテナ管理": "Container Management"
     <<<<12467, 12531, 12486, 12490, 31649, 29702>>, S("Container Management")>>,
     \* 20 (line 29): "ダウンロード管理": "Download Manager"
     <<<<12480, 12454, 12531, 12525, 12540, 12489, 31649, 29702>>, S("Download Manager")>>,
     \* 21 (line 30): "ゲーム追加": "Add Game"
     <<<<12466, 12540, 12512, 36861, 21152>>, S("Add Game")>>,
     \* 22 (line 31): "ゲーム詳細": "Game Details"
     <<<<12466, 12540, 12512, 35443, 32048>>, S("Game Details")>>,
     \* 23 (line 32): "設定": "Settings"
     <<<<35373, 23450>>, S("Settings")>>,
     \* 24 (line 33): "ログイン": "Login"
     <<<<12525, 12464, 12452, 12531>>, S("Login")>>,
     \* 25 (line 34): "ログアウト": "Logout"
     <<<<12525, 12464, 12450, 12454, 12488>>, S("Logout")>>,
     \* 26 (line 35): "同期": "Sync"
     <<<<21516, 26399>>, S("Sync")>>,
     \* 27 (line 36): "認証": "Auth"
     <<<<35469, 35388>>, S("Auth")>>,
     \* 28 (line 37): "保存": "Save"
     <<<<20445, 23384>>, S("Save")>>,
     \* 29 (line 38): "削除": "Delete"
     <<<<21066, 38500>>, S("Delete")>>,
     \* 30 (line 39): "キャンセル": "Cancel"
     <<<<12461, 12515, 12531, 12475, 12523>>, S("Cancel")>>,
     \* 31 (line 40): "閉じる": "Close"
     <<<<38281, 12376, 12427>>, S("Close")>>,
     \* 32 (line 41): "確認": "Confirm"
     <<<<30906, 35469>>, S("Confirm")>>,
     \* 33 (line 42): "戻る": "Back"
     <<<<25147, 12427>>, S("Back")>>,
     \* 34 (line 43): "追加": "Add"
     <<<<36861, 21152>>, S("Add")>>,
     \* 35 (line 44): "編集": "Edit"
     <<<<32232, 38598>>, S("Edit")>>,
     \* 36 (line 45): "更新": "Update"
     <<<<26356, 26032>>, S("Update")>>,
     \* 37 (line 46): "再試行": "Retry"
     <<<<20877, 35430, 34892>>, S("Retry")>>,
     \* 38 (line 47): "検索": "Search"
     <<<<26908, 32034>>, S("Search")>>,
     \* 39 (line 48): "お気に入り": "Favorites"
     <<<<12362, 27671, 12395, 20837, 12426>>, S("Favorites")>>,
     \* 40 (line 49): "最近プレイしたゲーム": "Recently Played"
     <<<<26368, 36817, 12503, 12524, 12452, 12375, 12383, 12466, 12540, 12512>>, S("Recently Played")>>,
     \* 41 (line 50): "インポートしたゲーム": "Imported Games"
     <<<<12452, 12531, 12509, 12540, 12488, 12375, 12383, 12466, 12540, 12512>>, S("Imported Games")>>,
     \* 42 (line 51): "インポート": "Import"
     <<<<12452, 12531, 12509, 12540, 12488>>, S("Import")>>,
     \* 43 (line 52): "インストール": "Install"
     <<<<12452, 12531, 12473, 12488, 12540, 12523>>, S("Install")>>,
     \* 44 (line 53): "アンインストール": "Uninstall"
     <<<<12450, 12531, 12452, 12531, 12473, 12488, 12540, 12523>>, S("Uninstall")>>,
     \* 45 (line 54): "起動": "Launch"
     <<<<36215, 21205>>, S("Launch")>>,
     \* 46 (line 55): "振動": "Vibration"
     <<<<25391, 21205>>, S("Vibration")>>,
     \* 47 (line 56): "有効": "Enabled"
     <<<<26377, 21177>>, S("Enabled")>>,
     \* 48 (line 57): "無効": "Disabled"
     <<<<28961, 21177>>, S("Disabled")>>,
     \* 49 (line 58): "左スティック": "Left Stick"
     <<<<24038, 12473, 12486, 12451, 12483, 12463>>, S("Left Stick")>>,
     \* 50 (line 59): "右スティック": "Right Stick"
     <<<<21491, 12473, 12486, 12451, 12483, 12463>>, S("Right Stick")>>,
     \* 51 (line 60): "トリガー": "Trigger"
     <<<<12488, 12522, 12460, 12540>>, S("Trigger")>>,
     \* 52 (line 61): "テスト": "Test"
     <<<<12486, 12473, 12488>>, S("Test")>>,
     \* 53 (line 62): "最近プレイした": "Recently Played"
     <<<<26368, 36817, 12503, 12524, 12452, 12375, 12383>>, S("Recently Played")>>,
     \* 54 (line 63): "お気に入りのゲーム": "Favorite Games"
     <<<<12362, 27671, 12395, 20837, 12426, 12398, 12466, 12540, 12512>>, S("Favorite Games")>>,
     \* 55 (line 64): "インポート済み": "Imported"
     <<<<12452, 12531, 12509, 12540, 12488, 28168, 12415>>, S("Imported")>>,
     \* 56 (line 65): "免責事項": "Disclaimer"
     <<<<20813, 36012, 20107, 38917>>, S("Disclaimer")>>,
     \* 57 (line 66): "注意事項": "Notes"
     <<<<27880, 24847, 20107, 38917>>, S("Notes")>>,
     \* 58 (line 67): "同意する": "I Agree"
     <<<<21516, 24847, 12377, 12427>>, S("I Agree")>>,
     \* 59 (line 68): "同意しない": "Disagree"
     <<<<21516, 24847, 12375, 12394, 12356>>, S("Disagree")>>,
     \* 60 (line 69): "完了済みクリア": "Clear Completed"
     <<<<23436, 20102, 28168, 12415, 12463, 12522, 12450>>, S("Clear Completed")>>,
     \* 61 (line 70): "進行中": "In Progress"
     <<<<36914, 34892, 20013>>, S("In Progress")>>,
     \* 62 (line 71): "ダウンロード履歴なし": "No download history"
     <<<<12480, 12454, 12531, 12525, 12540, 12489, 23653, 27508, 12394, 12375>>, S("No download history")>>,
     \* 63 (line 72): "一時停止": "Pause"
     <<<<19968, 26178, 20572, 27490>>, S("Pause")>>,
     \* 64 (line 73): "再開": "Resume"
     <<<<20877, 38283>>, S("Resume")>>,
     \* 65 (line 74): "コンテナ": "Container"
     <<<<12467, 12531, 12486, 12490>>, S("Container")>>,
     \* 66 (line 75): "コンテナがありません": "No containers"
     <<<<12467, 12531, 12486, 12490, 12364, 12354, 12426, 12414, 12379, 12435>>, S("No containers")>>,
     \* 67 (line 76): "新しいコンテナを作成": "Create New Container"
     <<<<26032, 12375, 12356, 12467, 12531, 12486, 12490, 12434, 20316, 25104>>, S("Create New Container")>>,
     \* 68 (line 77): "コンテナ名": "Container Name"
     <<<<12467, 12531, 12486, 12490, 21517>>, S("Container Name")>>,
     \* 69 (line 78): "コンテナ名を入力してください": "Enter container name"
     <<<<12467, 12531, 12486, 12490, 21517, 12434, 20837, 21147, 12375, 12390, 12367, 12384, 12373, 12356>>, S("Enter container name")>>,
     \* 70 (line 79): "コンテナを削除": "Delete Container"
     <<<<12467, 12531, 12486, 12490, 12434, 21066, 38500>>, S("Delete Container")>>,
     \* 71 (line 80): "この操作は取り消せません": "This action cannot be undone"
     <<<<12371, 12398, 25805, 20316, 12399, 21462, 12426, 28040, 12379, 12414, 12379, 12435>>, S("This action cannot be undone")>>,
     \* 72 (line 81): "作成": "Create"
     <<<<20316, 25104>>, S("Create")>>,
     \* 73 (line 82): "サイズ": "Size"
     <<<<12469, 12452, 12474>>, S("Size")>>,
     \* 74 (line 83): "ゲーム情報": "Game Info"
     <<<<12466, 12540, 12512, 24773, 22577>>, S("Game Info")>>,
     \* 75 (line 84): "プレイ時間": "Play Time"
     <<<<12503, 12524, 12452, 26178, 38291>>, S("Play Time")>>,
     \* 76 (line 85): "最終プレイ日時": "Last Played"
     <<<<26368, 32066, 12503, 12524, 12452, 26085, 26178>>, S("Last Played")>>,
     \* 77 (line 86): "ソース": "Source"
     <<<<12477, 12540, 12473>>, S("Source")>>,
     \* 78 (line 87): "ファイルパス": "File Paths"
     <<<<12501, 12449, 12452, 12523, 12497, 12473>>, S("File Paths")>>,
     \* 79 (line 88): "実行ファイル": "Executable"
     <<<<23455, 34892, 12501, 12449, 12452, 12523>>, S("Executable")>>,
     \* 80 (line 89): "インストールパス": "Install Path"
     <<<<12452, 12531, 12473, 12488, 12540, 12523, 12497, 12473>>, S("Install Path")>>,
     \* 81 (line 90): "Steam情報": "Steam Info"
     <<S("Steam") \o <<24773, 22577>>, S("Steam Info")>>,
     \* 82 (line 91): "ゲームを起動中": "Launching game"
     <<<<12466, 12540, 12512, 12434, 36215, 21205, 20013>>, S("Launching game")>>,
     \* 83 (line 92): "ゲームを起動できません": "Cannot launch game"
     <<<<12466, 12540, 12512, 12434, 36215, 21205, 12391, 12365, 12414, 12379, 12435>>, S("Cannot launch game")>>,
     \* 84 (line 93): "直接起動": "Direct Launch"
     <<<<30452, 25509, 36215, 21205>>, S("Direct Launch")>>,
     \* 85 (line 94): "Steam経由で起動": "Launch via Steam"
     <<S("Steam") \o <<32076, 30001, 12391, 36215, 21205>>, S("Launch via Steam")>>,
     \* 86 (line 95): "Steamクライアントを開く": "Open Steam Client"
     <<S("Steam") \o <<12463, 12521, 12452, 12450, 12531, 12488, 12434, 38283, 12367>>, S("Open Steam Client")>>,
     \* 87 (line 96): "設定を開く": "Open Settings"
     <<<<35373, 23450, 12434, 38283, 12367>>, S("Open Settings")>>,
     \* 88 (line 97): "未インストール": "Not Installed"
     <<<<26410, 12452, 12531, 12473, 12488, 12540, 12523>>, S("Not Installed")>>,
     \* 89 (line 98): "未設定": "Not Set"
     <<<<26410, 35373, 23450>>, S("Not Set")>>,
     \* 90 (line 99): "コントローラー設定": "Controller Settings"
     <<<<12467, 12531, 12488, 12525, 12540, 12521, 12540, 35373, 23450>>, S("Controller Settings")>>,
     \* 91 (line 100): "コントローラーが検出されません": "No controller detected"
     <<<<12467, 12531, 12488, 12525, 12540, 12521, 12540, 12364, 26908, 20986, 12373, 12428, 12414, 12379, 12435>>, S("No controller detected")>>,
     \* 92 (line 101): "デフォルトに戻す": "Reset to default"
     <<<<12487, 12501, 12457, 12523, 12488, 12395, 25147, 12377>>, S("Reset to default")>>,
     \* 93 (line 102): "デッドゾーン": "Deadzone"
     <<<<12487, 12483, 12489, 12478, 12540, 12531>>, S("Deadzone")>>,
     \* 94 (line 103): "テスト成功": "Test Successful"
     <<<<12486, 12473, 12488, 25104, 21151>>, S("Test Successful")>>,
     \* 95 (line 104): "不明なエラー": "Unknown error"
     <<<<19981, 26126, 12394, 12456, 12521, 12540>>, S("Unknown error")>>,
     \* 96 (line 105): "検索エラー": "Search error"
     <<<<26908, 32034, 12456, 12521, 12540>>, S("Search error")>>,
     \* 97 (line 106): "ゲームが既に存在します": "Game already exists"
     <<<<12466, 12540, 12512, 12364, 26082, 12395, 23384, 22312, 12375, 12414, 12377>>, S("Game already exists")>>,
     \* 98 (line 107): "同期を開始しています": "Starting sync"
     <<<<21516, 26399, 12434, 38283, 22987, 12375, 12390, 12356, 12414, 12377>>, S("Starting sync")>>,
     \* 99 (line 108): "同期中": "Syncing"
     <<<<21516, 26399, 20013>>, S("Syncing")>>,
     \* 100 (line 109): "API Keyを入力してください": "Please enter API Key"
     <<S("API Key") \o <<12434, 20837, 21147, 12375, 12390, 12367, 12384, 12373, 12356>>, S("Please enter API Key")>>,
     \* 101 (line 110): "無効なAPI Keyです": "Invalid API Key"
     <<<<28961, 21177, 12394>> \o S("API Key") \o <<12391, 12377>>, S("Invalid API Key")>>,
     \* 102 (line 111): "API Keyを保存しました": "API Key saved"
     <<S("API Key") \o <<12434, 20445, 23384, 12375, 12414, 12375, 12383>>, S("API Key saved")>>,
     \* 103 (line 112): "Steam設定をクリアしました": "Steam Settings cleared"
     <<S("Steam") \o <<35373, 23450, 12434, 12463, 12522, 12450, 12375, 12414, 12375, 12383>>, S("Steam Settings cleared")>>,
     \* 104 (line 113): "クリアに失敗しました": "Clear failed"
     <<<<12463, 12522, 12450, 12395, 22833, 25943, 12375, 12414, 12375, 12383>>, S("Clear failed")>>,
     \* 105 (line 114): "Steam Clientがインストールされていません": "Steam Client is not installed"
     <<S("Steam Client") \o <<12364, 12452, 12531, 12473, 12488, 12540, 12523, 12373, 12428, 12390, 12356, 12414, 12379, 12435>>, S("Steam Client is not installed")>>,
     \* 106 (line 115): "インストール状態の確認に失敗しました": "Failed to check installation status"
     <<<<12452, 12531, 12473, 12488, 12540, 12523, 29366, 24907, 12398, 30906, 35469, 12395, 22833, 25943, 12375, 12414, 12375, 12383>>, S("Failed to check installation status")>>,
     \* 107 (line 116): "予期しないエラーが発生しました": "Unexpected error occurred"
     <<<<20104, 26399, 12375, 12394, 12356, 12456, 12521, 12540, 12364, 30330, 29983, 12375, 12414, 12375, 12383>>, S("Unexpected error occurred")>>,
     \* 108 (line 117): "Steam Clientを起動しました": "Steam Client launched"
     <<S("Steam Client") \o <<12434, 36215, 21205, 12375, 12414, 12375, 12383>>, S("Steam Client launched")>>,
     \* 109 (line 118): "Steam Clientがアンインストールされました": "Steam Client has been uninstalled"
     <<S("Steam Client") \o <<12364, 12450, 12531, 12452, 12531, 12473, 12488, 12540, 12523, 12373, 12428, 12414, 12375, 12383>>, S("Steam Client has been uninstalled")>>,
     \* 110 (line 119): "アンインストールに失敗しました": "Uninstall failed"
     <<<<12450, 12531, 12452, 12531, 12473, 12488, 12540, 12523, 12395, 22833, 25943, 12375, 12414, 12375, 12383>>, S("Uninstall failed")>>,
     \* 111 (line 120): "Winlator初期化": "Winlator initialization"
     <<S("Winlator") \o <<21021, 26399, 21270>>, S("Winlator initialization")>>,
     \* 112 (line 121): "Winlatorを初期化中": "Initializing Winlator"
     <<S("Winlator") \o <<12434, 21021, 26399, 21270, 20013>>, S("Initializing Winlator")>>,
     \* 113 (line 122): "初期化に失敗しました": "Initialization failed"
     <<<<21021, 26399, 21270, 12395, 22833, 25943, 12375, 12414, 12375, 12383>>, S("Initialization failed")>>,
     \* 114 (line 123): "初期化中にエラーが発生しました": "Error occurred during initialization"
     <<<<21021, 26399, 21270, 20013, 12395, 12456, 12521, 12540, 12364, 30330, 29983, 12375, 12414, 12375, 12383>>, S("Error occurred during initialization")>>,
     \* 115 (line 124): "コントローラー": "Controller"
     <<<<12467, 12531, 12488, 12525, 12540, 12521, 12540>>, S("Controller")>>
  >>

(***************************************************************************)
(* str.replace(old, new): every non-overlapping occurrence of old, found   *)
(* left to right, is replaced; the scan resumes right after each match.    *)
(* With old = "" Python inserts new before every character and at the end. *)
(***************************************************************************)
(* old occurs in s at position p (old is not empty). *)
MatchAt(s, old, p) ==
    /\ s[p] = old[1]
    /\ SubSeq(s, p, p + Len(old) - 1) = old

(* str.find(old, k): the leftmost position >= k where old occurs, 0 if none. *)
Find(s, old, k) ==
    IF \E p \in k..(Len(s) - Len(old) + 1) : MatchAt(s, old, p)
    THEN CHOOSE p \in k..(Len(s) - Len(old) + 1) :
            /\ MatchAt(s, old, p)
            /\ \A q \in k..(p - 1) : ~MatchAt(s, old, q)
    ELSE 0

(* Variant of Resume: the scan resumes one character after the start of a match. *)
ResumeOverlapping(p, old) == p + 1

(* Where the scan resumes after a match at p: right after the match. *)
Resume(p, old) == p + Len(old)

Replace(s, old, new) ==
    LET insert[k \in 1..(Len(s) + 1)] ==
            IF k > Len(s) THEN new
            ELSE new \o <<s[k]>> \o insert[k + 1]
        scan[k \in 1..(Len(s) + 1)] ==
            LET p == Find(s, old, k)
            IN  IF p = 0 THEN SubSeq(s, k, Len(s))
                ELSE SubSeq(s, k, p - 1) \o new \o scan[Resume(p, old)]
    IN  IF old = <<>> THEN insert[1] ELSE scan[1]

(* Variant of Items: the pairs in reverse insertion order. *)
ItemsReversed(d) == [k \in 1..Len(d) |-> d[Len(d) + 1 - k]]

(* dict.items(): the (key, value) pairs in insertion order. *)
Items(d) == d

(***************************************************************************)
(* for jp, en in translations.items(): content = content.replace(jp, en)   *)
(* loop[k, t]: the text after the iterations k, k+1, ... on the text t.    *)
(***************************************************************************)
Apply(d, s) ==
    LET loop[k \in 1..(Len(d) + 1), t \in Seq(Int)] ==
            IF k > Len(d) THEN t
            ELSE loop[k + 1, Replace(t, Items(d)[k][1], Items(d)[k][2])]
    IN  loop[1, s]

(***************************************************************************)
(* encoding="utf-8".  A file holds bytes; a text is a sequence of code     *)
(* points.  str.encode("utf-8") of one character, and of a text.           *)
(***************************************************************************)
EncodeChar(c) ==
    IF c < 128 THEN <<c>>
    ELSE IF c < 2048 THEN <<192 + (c \div 64), 128 + (c % 64)>>
    ELSE IF c < 65536
         THEN <<224 + (c \div 4096), 128 + ((c \div 64) % 64), 128 + (c % 64)>>
         ELSE <<240 + (c \div 262144), 128 + ((c \div 4096) % 64),
                128 + ((c \div 64) % 64), 128 + (c % 64)>>

Encode(s) ==
    LET bytes[t \in Seq(Int)] ==
            LET enc[k \in 1..(Len(t) + 1)] ==
                    IF k > Len(t) THEN <<>>
                    ELSE EncodeChar(t[k]) \o enc[k + 1]
            IN  enc[1]
    IN  bytes[s]

(* A continuation byte 10xxxxxx. *)
Cont(x) == x \in 128..191

(***************************************************************************)
(* The strict UTF-8 decoder: the number of bytes of the well-formed        *)
(* character that starts at b[k], 0 if there is none (invalid start byte,  *)
(* invalid or missing continuation, overlong form, surrogate, > U+10FFFF). *)
(***************************************************************************)
Width(b, k) ==
    IF b[k] < 128 THEN 1
    ELSE IF /\ b[k] \in 194..223
            /\ k + 1 <= Len(b)
            /\ Cont(b[k + 1])
         THEN 2
    ELSE IF /\ b[k] \in 224..239
            /\ k + 2 <= Len(b)
            /\ Cont(b[k + 1]) /\ Cont(b[k + 2])
            /\ b[k] = 224 => b[k + 1] >= 160
            /\ b[k] = 237 => b[k + 1] <= 159
         THEN 3
    ELSE IF /\ b[k] \in 240..244
            /\ k + 3 <= Len(b)
            /\ Cont(b[k + 1]) /\ Cont(b[k + 2]) /\ Cont(b[k + 3])
            /\ b[k] = 240 => b[k + 1] >= 144
            /\ b[k] = 244 => b[k + 1] <= 143
         THEN 4
    ELSE 0

(* The code point of the well-formed character of w bytes at b[k]. *)
CodePoint(b, k, w) ==
    CASE w = 1 -> b[k]
      [] w = 2 -> (b[k] - 192) * 64 + (b[k + 1] - 128)
      [] w = 3 -> (b[k] - 224) * 4096 + (b[k + 1] - 128) * 64 + (b[k + 2] - 128)
      [] w = 4 -> (b[k] - 240) * 262144 + (b[k + 1] - 128) * 4096
                     + (b[k + 2] - 128) * 64 + (b[k + 3] - 128)

(* bytes.decode("utf-8") does not raise UnicodeDecodeError. *)
Decodable(b) ==
    LET ok[k \in 1..(Len(b) + 1)] ==
            IF k > Len(b) THEN TRUE
            ELSE IF Width(b, k) = 0 THEN FALSE
            ELSE ok[k + Width(b, k)]
    IN  ok[1]

Decode(b) ==
    LET dec[k \in 1..(Len(b) + 1)] ==
            IF k > Len(b) THEN <<>>
            ELSE <<CodePoint(b, k, Width(b, k))>> \o dec[k + Width(b, k)]
    IN  dec[1]

(***************************************************************************)
(* Text mode with newline=None.  Reading: "\r\n" and a lone "\r" become    *)
(* "\n".  Writing: every "\n" becomes os.linesep.                          *)
(***************************************************************************)
Newlines(d) ==
    LET nl[k \in 1..(Len(d) + 1)] ==
            IF k > Len(d) THEN <<>>
            ELSE IF d[k] = 13
                 THEN <<10>> \o nl[IF k < Len(d) /\ d[k + 1] = 10 THEN k + 2 ELSE k + 1]
                 ELSE <<d[k]>> \o nl[k + 1]
    IN  nl[1]

(* f.read_text(encoding="utf-8") of a file holding the decodable bytes b. *)
ReadText(b) ==
    LET text[t \in Seq(Int)] == Newlines(t)
    IN  text[Decode(b)]

(* The bytes f.write_text(s, encoding="utf-8") writes. *)
WriteText(s) == Encode(Replace(s, <<10>>, linesep))

(***************************************************************************)
(* Bounds of the model.                                                    *)
(***************************************************************************)
MaxFiles == 2    \* files the walk yields
MaxPieces == 1   \* patterns concatenated into an input of the embedded table
MaxLit == 2      \* length of a pattern or replacement of a small dict
MaxLen == 3      \* length of a text given to a small dict

(***************************************************************************)
(* The tree below `base`.  File k of the walk has its own directory, so    *)
(* f.name (the last path component) repeats: files 1 and 3 share a name.   *)
(***************************************************************************)
Name(k) == IF k % 2 = 1 THEN "HomeScreen.kt" ELSE "SettingsScreen.kt"

(* What can go wrong with a file, besides its bytes not being UTF-8:       *)
(*   "unreadable" read_text cannot open the file (PermissionError)         *)
(*   "readonly"   write_text cannot open the file (PermissionError)        *)
(*   "oserror"    write_text opens and truncates the file, then the write  *)
(*                or the closing flush raises OSError; some prefix of the  *)
(*                new bytes, possibly all of them, has reached the disk    *)
Faults == {"none", "unreadable", "readonly", "oserror"}

WriteFaults == {"readonly", "oserror"}

(* The bytes of the .kt files when the script starts. *)
Contents ==
    { \* val s = "準備完了"
      Encode(S("val s = \"") \o <<28310, 20633, 23436, 20102>> \o S("\"\r\n")),
      Encode(S("val n = 1\r\n")),
      \* what a failing write left of "Please enter API Keyを...": cut inside を
      S("Please enter API Key") \o <<227>> }

(* The same, and a file on which line 109 of the dict acts twice. *)
ContentsTwice ==
    Contents \cup
    { \* API Keyを入力してくださいを入力してください
      Encode(S("API Key")
               \o <<12434, 20837, 21147, 12375, 12390, 12367, 12384, 12373, 12356>>
               \o <<12434, 20837, 21147, 12375, 12390, 12367, 12384, 12373, 12356>>) }

(* Variant of Caught: except OSError, which lets a decode error through. *)
CaughtOSErrorOnly(e) == e \in {"PermissionError", "OSError"}

(* except Exception as e: catches every exception read_text and write_text raise. *)
Caught(e) == e \in {"UnicodeDecodeError", "PermissionError", "OSError"}

(* Variant of Changed: the comparison is dropped and every file is written. *)
ChangedAlways(new, old) == TRUE

(* if content != original *)
Changed(new, old) == new # old

(* Some key of translations occurs in s. *)
HasPattern(s) ==
    \E k \in 1..Len(translations) : Find(s, translations[k][1], 1) # 0

ErrorLine(name) == [line |-> "Error", name |-> name, n |-> 0]

CountLine(n) == [line |-> "Updated", name |-> "", n |-> n]

EntryLine(name) == [line |-> "-", name |-> name, n |-> 0]

NoRecord ==
    [ok |-> FALSE, original |-> <<>>, content |-> <<>>, hit |-> FALSE,
     opened |-> FALSE]

(***************************************************************************)
(* The script.                                                             *)
(***************************************************************************)
Start(texts) ==
    /\ linesep \in {<<10>>, <<13, 10>>}
    /\ rootExists \in BOOLEAN
    /\ \E n \in 0..MaxFiles :
         /\ rootExists \/ n = 0      \* rglob below a missing root yields nothing
         /\ \E fs \in [1..n -> Faults] :
              files = [k \in 1..n |-> [name |-> Name(k), fault |-> fs[k]]]
         /\ disk \in [1..n -> texts]
         /\ seen = [k \in 1..n |-> NoRecord]
    /\ start = disk
    /\ run = 1
    /\ pc = "loop"
    /\ i = 0
    /\ content = <<>>
    /\ original = <<>>
    /\ updated = <<>>
    /\ stdout = <<>>
    /\ trace = <<>>
    /\ table = <<>>
    /\ ri = 0

Init == Start(Contents)

Log(step) == trace' = Append(trace, <<i, step>>)

(* for f in base.rglob("*.kt"): the next file *)
NextFile ==
    /\ pc = "loop"
    /\ i < Len(files)
    /\ i' = i + 1
    /\ pc' = "read"
    /\ UNCHANGED <<linesep, rootExists, files, start, disk, run, content, original,
                   updated, stdout, trace, seen, table, ri>>

(* the walk is exhausted *)
EndLoop ==
    /\ pc = "loop"
    /\ i = Len(files)
    /\ pc' = "summary"
    /\ UNCHANGED <<linesep, rootExists, files, start, disk, run, i, content, original,
                   updated, stdout, trace, seen, table, ri>>

(* content = f.read_text(encoding="utf-8"); original = content *)
Read ==
    /\ pc = "read"
    /\ files[i].fault # "unreadable"
    /\ Decodable(disk[i])
    /\ content' = ReadText(disk[i])
    /\ original' = content'
    /\ pc' = "transform"
    /\ Log("Read")
    /\ UNCHANGED <<linesep, rootExists, files, start, disk, run, i, updated, stdout,
                   seen, table, ri>>

(* read_text raises: the file cannot be opened, or its bytes are not UTF-8 *)
ReadFail ==
    /\ pc = "read"
    /\ files[i].fault = "unreadable" \/ ~Decodable(disk[i])
    /\ pc' = IF Caught(IF files[i].fault = "unreadable"
                       THEN "PermissionError" ELSE "UnicodeDecodeError")
             THEN "except" ELSE "crashed"
    /\ Log("ReadError")
    /\ UNCHANGED <<linesep, rootExists, files, start, disk, run, i, content, original,
                   updated, stdout, seen, table, ri>>

(* for jp, en in translations.items(): content = content.replace(jp, en) *)
Transform ==
    /\ pc = "transform"
    /\ content' = Apply(translations, content)
    /\ pc' = "compare"
    /\ Log("Transform")
    /\ seen' = [seen EXCEPT ![i] = [ok |-> TRUE, original |-> original,
                                    content |-> content',
                                    hit |-> HasPattern(original),
                                    opened |-> FALSE]]
    /\ UNCHANGED <<linesep, rootExists, files, start, disk, run, i, original, updated,
                   stdout, table, ri>>

(* if content != original: *)
Compare ==
    /\ pc = "compare"
    /\ pc' = IF Changed(content, original) THEN "write" ELSE "loop"
    /\ Log("Compare")
    /\ UNCHANGED <<linesep, rootExists, files, start, disk, run, i, content, original,
                   updated, stdout, seen, table, ri>>

(* Variant of Write: f.write_text(original, ...). *)
WriteOriginal ==
    /\ pc = "write"
    /\ files[i].fault \notin WriteFaults
    /\ disk' = [disk EXCEPT ![i] = WriteText(original)]
    /\ seen' = [seen EXCEPT ![i].opened = TRUE]
    /\ pc' = "record"
    /\ Log("Write")
    /\ UNCHANGED <<linesep, rootExists, files, start, run, i, content, original,
                   updated, stdout, table, ri>>

(* f.write_text(content, encoding="utf-8") *)
Write ==
    /\ pc = "write"
    /\ files[i].fault \notin WriteFaults
    /\ disk' = [disk EXCEPT ![i] = WriteText(content)]
    /\ seen' = [seen EXCEPT ![i].opened = TRUE]
    /\ pc' = "record"
    /\ Log("Write")
    /\ UNCHANGED <<linesep, rootExists, files, start, run, i, content, original,
                   updated, stdout, table, ri>>

(* write_text raises in open(): the file is not opened, nothing is written *)
WriteDenied ==
    /\ pc = "write"
    /\ files[i].fault = "readonly"
    /\ pc' = IF Caught("PermissionError") THEN "except" ELSE "crashed"
    /\ Log("WriteError")
    /\ UNCHANGED <<linesep, rootExists, files, start, disk, run, i, content, original,
                   updated, stdout, seen, table, ri>>

(* write_text raises after open(mode="w") truncated the file *)
WriteCut ==
    /\ pc = "write"
    /\ files[i].fault = "oserror"
    /\ \E n \in 0..Len(WriteText(content)) :
         disk' = [disk EXCEPT ![i] = SubSeq(WriteText(content), 1, n)]
    /\ seen' = [seen EXCEPT ![i].opened = TRUE]
    /\ pc' = IF Caught("OSError") THEN "except" ELSE "crashed"
    /\ Log("WriteError")
    /\ UNCHANGED <<linesep, rootExists, files, start, run, i, content, original,
                   updated, stdout, table, ri>>

(* updated.append(f.name) *)
Record ==
    /\ pc = "record"
    /\ updated' = Append(updated, files[i].name)
    /\ pc' = "loop"
    /\ Log("Record")
    /\ UNCHANGED <<linesep, rootExists, files, start, disk, run, i, content, original,
                   stdout, seen, table, ri>>

(* Variant of Except: the handler also appends the file to `updated`. *)
ExceptAppends ==
    /\ pc = "except"
    /\ stdout' = Append(stdout, ErrorLine(files[i].name))
    /\ updated' = Append(updated, files[i].name)
    /\ pc' = "loop"
    /\ Log("Error")
    /\ UNCHANGED <<linesep, rootExists, files, start, disk, run, i, content, original,
                   seen, table, ri>>

(* except Exception as e: print(f"Error {f.name}: {e}") *)
Except ==
    /\ pc = "except"
    /\ stdout' = Append(stdout, ErrorLine(files[i].name))
    /\ pc' = "loop"
    /\ Log("Error")
    /\ UNCHANGED <<linesep, rootExists, files, start, disk, run, i, content, original,
                   updated, seen, table, ri>>

(* Variant of Summary: the count printed is the number of files walked. *)
SummaryCountsAll ==
    /\ pc = "summary"
    /\ stdout' = stdout \o <<CountLine(Len(files))>>
                        \o [k \in 1..Len(updated) |-> EntryLine(updated[k])]
    /\ pc' = "done"
    /\ UNCHANGED <<linesep, rootExists, files, start, disk, run, i, content, original,
                   updated, trace, seen, table, ri>>

(* print(f"Updated {len(updated)} files"); for f in updated: print(f"  - {f}") *)
Summary ==
    /\ pc = "summary"
    /\ stdout' = stdout \o <<CountLine(Len(updated))>>
                        \o [k \in 1..Len(updated) |-> EntryLine(updated[k])]
    /\ pc' = "done"
    /\ UNCHANGED <<linesep, rootExists, files, start, disk, run, i, content, original,
                   updated, trace, seen, table, ri>>

(* The script is executed once more, on the tree the first execution left. *)
Rerun ==
    /\ pc = "done"
    /\ run = 1
    /\ run' = 2
    /\ start' = disk
    /\ pc' = "loop"
    /\ i' = 0
    /\ content' = <<>>
    /\ original' = <<>>
    /\ updated' = <<>>
    /\ stdout' = <<>>
    /\ trace' = <<>>
    /\ seen' = [k \in 1..Len(files) |-> NoRecord]
    /\ UNCHANGED <<linesep, rootExists, files, disk, table, ri>>

Next ==
    \/ NextFile \/ EndLoop \/ Read \/ ReadFail \/ Transform \/ Compare
    \/ Write \/ WriteDenied \/ WriteCut \/ Record \/ Except \/ Summary

(* One execution of the script. *)
Spec == Init /\ [][Next]_vars

(* A sequential script keeps executing its next statement. *)
FairSpec == Spec /\ WF_vars(Next)

(* Two executions of the script, the second on the tree the first left. *)
NextTwice == Next \/ Rerun

InitTwice == Start(ContentsTwice)

SpecTwice == InitTwice /\ [][NextTwice]_vars


(***************************************************************************)
(* The substitution loop on its own (lines 134-135), one iteration per     *)
(* step: on the embedded dict, and on small dicts over a two-letter        *)
(* alphabet.  A dict has distinct keys.                                    *)
(***************************************************************************)
Alphabet == {97, 98}

RECURSIVE TextsOfLen(_)
TextsOfLen(n) ==
    IF n = 0 THEN {<<>>}
    ELSE {<<c>> \o t : c \in Alphabet, t \in TextsOfLen(n - 1)}

TextsUpTo(n) == UNION {TextsOfLen(m) : m \in 0..n}

SmallDicts ==
    LET lits == TextsUpTo(MaxLit)
        item == lits \X lits
    IN  {<<r>> : r \in item}
          \cup {d \in {<<r1, r2>> : r1 \in item, r2 \in item} : d[1][1] # d[2][1]}

Patterns == {translations[k][1] : k \in 1..Len(translations)}

RECURSIVE Pieces(_)
Pieces(n) ==
    IF n = 1 THEN Patterns
    ELSE Patterns \cup {p \o q : p \in Patterns, q \in Pieces(n - 1)}

LoopInit(d, texts) ==
    /\ table = d
    /\ content \in texts
    /\ original = content
    /\ ri = 1
    /\ pc = "rules"
    /\ linesep = <<10>>
    /\ rootExists = TRUE
    /\ files = <<>>
    /\ start = <<>>
    /\ disk = <<>>
    /\ run = 1
    /\ i = 0
    /\ updated = <<>>
    /\ stdout = <<>>
    /\ trace = <<>>
    /\ seen = <<>>

(* Variant of Iterate: content = original.replace(jp, en). *)
IterateOnOriginal(d) ==
    /\ pc = "rules"
    /\ ri <= Len(Items(d))
    /\ content' = Replace(original, Items(d)[ri][1], Items(d)[ri][2])
    /\ ri' = ri + 1
    /\ UNCHANGED <<linesep, rootExists, files, start, disk, run, pc, i, original,
                   updated, stdout, trace, seen, table>>

(* one iteration of: for jp, en in d.items(): content = content.replace(jp, en) *)
Iterate(d) ==
    /\ pc = "rules"
    /\ ri <= Len(Items(d))
    /\ content' = Replace(content, Items(d)[ri][1], Items(d)[ri][2])
    /\ ri' = ri + 1
    /\ UNCHANGED <<linesep, rootExists, files, start, disk, run, pc, i, original,
                   updated, stdout, trace, seen, table>>

InitRules == LoopInit(<<>>, Pieces(MaxPieces))

EmbeddedStep == Iterate(translations)

SpecRules == InitRules /\ [][EmbeddedStep]_vars

InitApply == \E d \in SmallDicts : LoopInit(d, TextsUpTo(MaxLen))

DictStep == Iterate(table)

SpecApply == InitApply /\ [][DictStep]_vars

(***************************************************************************)
(* What a run did, read off its history.                                   *)
(***************************************************************************)
Did(j, step) == \E k \in 1..Len(trace) : trace[k] = <<j, step>>

StepsOf(j) ==
    LET es == SelectSeq(trace, LAMBDA e : e[1] = j)
    IN  [k \in 1..Len(es) |-> es[k][2]]

Finished(j) == pc \in {"summary", "done"} \/ j < i \/ (j = i /\ pc = "loop")

(* open(mode="w") of write_text succeeded on file j in this run. *)
OpenedForWriting(j) == seen[j].opened

ChangedFlag(j) == seen[j].content # seen[j].original

Persisted(j) == Did(j, "Write") /\ disk[j] = WriteText(seen[j].content)

Contains(s, sub) == sub = <<>> \/ Find(s, sub, 1) # 0

IsPrefix(p, q) == Len(p) <= Len(q) /\ SubSeq(q, 1, Len(p)) = p

(* The step sequences one file can go through. *)
FileRuns ==
    { <<"Read", "Transform", "Compare", "Write", "Record">>,
      <<"Read", "Transform", "Compare">>,
      <<"Read", "Transform", "Compare", "WriteError", "Error">>,
      <<"ReadError", "Error">> }

(* The files whose write completed, in the order of the writes. *)
Written ==
    LET ws == SelectSeq(trace, LAMBDA e : e[2] = "Write")
    IN  [k \in 1..Len(ws) |-> ws[k][1]]

Recorded ==
    LET rs == SelectSeq(trace, LAMBDA e : e[2] = "Record")
    IN  [k \in 1..Len(rs) |-> rs[k][1]]

(***************************************************************************)
(* C1 as stated: a file the run has read and finished is persisted (its    *)
(* write completed and the disk holds the transformed text) if and only if *)
(* its changed flag is true, and a file whose changed flag is false is     *)
(* never opened for writing; also when the write step fails.               *)
(***************************************************************************)
C1_PersistedIffChanged ==
    \A j \in 1..Len(files) :
        (Finished(j) /\ seen[j].ok) =>
            /\ Persisted(j) <=> ChangedFlag(j)
            /\ ~ChangedFlag(j) => ~OpenedForWriting(j)

(***************************************************************************)
(* C1 amended: a file the run has read and finished is persisted (its      *)
(* write completed and the disk holds the transformed text) if and only if *)
(* its changed flag is true and its write step did not fail; a file whose  *)
(* changed flag is false is never opened for writing.                      *)
(***************************************************************************)
WriteFailed(j) == Did(j, "WriteError")

C1_PersistedIffChangedAndWritten ==
    \A j \in 1..Len(files) :
        (Finished(j) /\ seen[j].ok) =>
            /\ Persisted(j) <=> (ChangedFlag(j) /\ ~WriteFailed(j))
            /\ ~ChangedFlag(j) => ~OpenedForWriting(j)

C1_Witness ==
    /\ pc = "done"
    /\ \E j \in 1..Len(files) :
         /\ ChangedFlag(j) /\ WriteFailed(j) /\ ~Persisted(j)
         /\ ~OpenedForWriting(j)
         /\ disk[j] = start[j]
    /\ \E j \in 1..Len(files) :
         ChangedFlag(j) /\ OpenedForWriting(j) /\ Persisted(j)

(***************************************************************************)
(* C2: a failing read or write never aborts the batch.  Every execution    *)
(* reaches the end of the summary, no exception escapes the loop body, and *)
(* at the end every file was read or failed to read, every readable file   *)
(* was transformed and compared, and every changed file without a write    *)
(* failure was written and recorded, whatever happened to earlier files.   *)
(***************************************************************************)
AllHandled ==
    \A j \in 1..Len(files) :
        /\ Did(j, "Read") \/ Did(j, "ReadError")
        /\ (files[j].fault # "unreadable" /\ Decodable(start[j])) =>
              /\ StepsOf(j) # <<>>
              /\ IsPrefix(<<"Read", "Transform", "Compare">>, StepsOf(j))
              /\ seen[j].ok
        /\ (files[j].fault = "none" /\ seen[j].ok /\ ChangedFlag(j)) =>
              /\ Persisted(j)
              /\ Did(j, "Record")
              /\ \E k \in 1..Len(updated) : updated[k] = files[j].name

C2_FailureIsolation ==
    /\ [](pc # "crashed")
    /\ [](pc = "done" => AllHandled)
    /\ (pc = "loop" /\ i = 0) ~> (pc = "done")

C2_Witness ==
    /\ pc = "done"
    /\ \E j1, j2 \in 1..Len(files) :
         /\ j1 < j2
         /\ Did(j1, "ReadError") \/ Did(j1, "WriteError")
         /\ Did(j2, "Record")

(***************************************************************************)
(* C3: at every point of a run, the entries of `updated` are exactly the   *)
(* names of the files recorded so far, and each recorded file is one whose *)
(* write completed in this run: it raised no read or write error and was   *)
(* not skipped as unchanged.                                               *)
(***************************************************************************)
C3_ReportOnlyWritten ==
    /\ Len(updated) = Len(Recorded)
    /\ \A k \in 1..Len(Recorded) :
         LET j == Recorded[k]
         IN  /\ updated[k] = files[j].name
             /\ Did(j, "Write")
             /\ ~Did(j, "ReadError")
             /\ ~Did(j, "WriteError")
             /\ ~Did(j, "Error")
             /\ ChangedFlag(j)
             /\ disk[j] = WriteText(seen[j].content)

C3_Witness ==
    /\ pc = "done"
    /\ Len(updated) = 1
    /\ \E j \in 1..Len(files) : Did(j, "Error")

(***************************************************************************)
(* C4: idempotence.  A second execution over the tree the first one left   *)
(* changes no file: its report stays empty and its summary counts 0.       *)
(***************************************************************************)
C4_SecondRunChangesNothing ==
    run = 2 =>
        /\ updated = <<>>
        /\ \A k \in 1..Len(stdout) :
             stdout[k].line = "Updated" => stdout[k].n = 0

(***************************************************************************)
(* C5: locality.  A file whose text holds no occurrence of any pattern has *)
(* transformed text equal to its original text, keeps its content on disk, *)
(* is never opened for writing and is never recorded.                      *)
(***************************************************************************)
C5_Locality ==
    \A j \in 1..Len(files) :
        (seen[j].ok /\ ~seen[j].hit) =>
            /\ seen[j].content = seen[j].original
            /\ disk[j] = start[j]
            /\ ~OpenedForWriting(j)
            /\ ~Did(j, "Write")
            /\ ~Did(j, "WriteError")
            /\ ~Did(j, "Record")
            /\ Finished(j) => StepsOf(j) = <<"Read", "Transform", "Compare">>

C5_Witness ==
    /\ pc = "done"
    /\ Len(updated) >= 1
    /\ \E j \in 1..Len(files) : seen[j].ok /\ ~seen[j].hit /\ Finished(j)

(***************************************************************************)
(* C8: with a root directory that does not exist the run fails at the top  *)
(* level: it neither completes nor prints the summary line.                *)
(***************************************************************************)
C8_MissingRootFails ==
    ~rootExists =>
        /\ pc # "done"
        /\ \A k \in 1..Len(stdout) : stdout[k].line # "Updated"

(***************************************************************************)
(* C9: files are processed one after the other in walk order, each exactly *)
(* once and through Read, Transform, Compare, then Write and Record or     *)
(* nothing more; the summary is printed once, after all files, and its     *)
(* count equals the number of entries listed and the number of files       *)
(* written, the entries being the written files in processing order.       *)
(***************************************************************************)
C9_OrderAndSummary ==
    /\ \A k \in 1..(Len(trace) - 1) : trace[k][1] <= trace[k + 1][1]
    /\ \A j \in 1..Len(files) :
         /\ \E r \in FileRuns : IsPrefix(StepsOf(j), r)
         /\ Finished(j) => StepsOf(j) \in FileRuns
         /\ j > i => StepsOf(j) = <<>>
    /\ LET counts == {k \in 1..Len(stdout) : stdout[k].line = "Updated"}
       IN  IF pc = "done"
           THEN /\ Cardinality(counts) = 1
                /\ \A c \in counts :
                     /\ \A k \in 1..(c - 1) : stdout[k].line = "Error"
                     /\ stdout[c].n = Len(updated)
                     /\ stdout[c].n = Len(Written)
                     /\ Len(stdout) = c + Len(updated)
                     /\ \A k \in 1..Len(updated) :
                          /\ stdout[c + k] = EntryLine(updated[k])
                          /\ updated[k] = files[Written[k]].name
           ELSE counts = {}

C9_Witness ==
    /\ pc = "done"
    /\ Len(updated) = 2
    /\ Len(stdout) = 3

(***************************************************************************)
(* C6 as stated: for distinct literals A, B, C the dict [(A,B), (B,C)]     *)
(* maps the text A to C and the dict [(B,C), (A,B)] maps the text A to B.  *)
(***************************************************************************)
Distinct3(a, b, c) == a # b /\ b # c /\ a # c

CascadeForm == \* table = [(A,B), (B,C)], text A
    /\ Len(table) = 2
    /\ table[1][2] = table[2][1]
    /\ Distinct3(table[1][1], table[1][2], table[2][2])
    /\ original = table[1][1]

ReverseForm == \* table = [(B,C), (A,B)], text A
    /\ Len(table) = 2
    /\ table[2][2] = table[1][1]
    /\ Distinct3(table[2][1], table[2][2], table[1][2])
    /\ original = table[2][1]

C6_OrderSensitive ==
    ri = 3 =>
        /\ CascadeForm => content = table[2][2]
        /\ ReverseForm => content = table[2][2]

(***************************************************************************)
(* C6 amended: rules apply one after the other, each to the text the       *)
(* earlier ones produced.  For distinct literals A, B, C the dict          *)
(* [(A,B), (B,C)] maps the text A to C, and the dict [(B,C), (A,B)] maps   *)
(* the text A to B provided B does not occur in A.                         *)
(***************************************************************************)
C6_OrderSensitiveApart ==
    ri = 3 =>
        /\ CascadeForm => content = table[2][2]
        /\ (ReverseForm /\ ~Contains(table[2][1], table[2][2]))
              => content = table[2][2]

C6_Witness ==
    /\ ri = 3
    /\ ReverseForm
    /\ ~Contains(table[2][1], table[2][2])
    /\ Len(original) = 2
    /\ content = table[2][2]

(***************************************************************************)
(* C7: one rule replaces the occurrences of its pattern left to right      *)
(* without overlap and does not rescan replaced text: the pattern cc on    *)
(* the text ccc yields the replacement followed by c, for every            *)
(* replacement, also one that holds the pattern.                           *)
(***************************************************************************)
C7_NonOverlap ==
    (Len(table) = 1 /\ ri = 2) =>
        \A c \in Alphabet :
            (table[1][1] = <<c, c>> /\ original = <<c, c, c>>)
                => content = table[1][2] \o <<c>>

C7_Witness ==
    /\ Len(table) = 1
    /\ ri = 2
    /\ table[1] = <<<<97, 97>>, <<97, 97>>>>
    /\ original = <<97, 97, 97>>
    /\ content = <<97, 97, 97>>

(***************************************************************************)
(* C10: in the embedded dict, an item whose key holds the key of an        *)
(* earlier item never replaces anything: its iteration leaves the text as  *)
(* it is.  The text アンインストール ends as アンInstall and the text      *)
(* 完了済みクリア ends as Complete済みクリア.                              *)
(***************************************************************************)
ShadowedRules ==
    {k \in 1..Len(translations) :
        \E j \in 1..(k - 1) : Contains(translations[k][1], translations[j][1])}

Uninstall == <<12450, 12531, 12452, 12531, 12473, 12488, 12540, 12523>>

ClearCompleted == <<23436, 20102, 28168, 12415, 12463, 12522, 12450>>

LoopDone == pc = "rules" /\ ri = Len(translations) + 1

C10_ShadowedRulesNeverFire ==
    /\ [][(pc = "rules" /\ ri \in ShadowedRules) => content' = content]_vars
    /\ [](LoopDone /\ original = Uninstall
            => content = <<12450, 12531>> \o S("Install"))
    /\ [](LoopDone /\ original = ClearCompleted
            => content = S("Complete") \o <<28168, 12415, 12463, 12522, 12450>>)

C10_Witness ==
    /\ pc = "rules"
    /\ original = Uninstall
    /\ 44 \in ShadowedRules
    /\ ri = 45
    /\ content = <<12450, 12531>> \o S("Install")
=============================================================================
